---- MODULE Spec2Model ----
(***************************************************************************)
(* Model of scripts/update-body-spacing.py: the batch script that reads    *)
(* every body template, applies seven regular-expression substitutions    *)
(* in a fixed order and rewrites the file when its content changed.        *)
(*                                                                         *)
(* A template's content is a sequence of tokens.  Every token stands for   *)
(* one literal fragment of text that a pattern or a replacement of the     *)
(* script spells out, for one whitespace character, or for any other text: *)
(*   TD13/TD20/TD24  <td style="padding-top: NNpx;">                       *)
(*   CMT             <!-- Top border above subject -->                     *)
(*   DIVFF           <div style="font-family                               *)
(*   DIV13/DIV20     <div style="border-top: 1px solid #000000;            *)
(*                        margin-bottom: NNpx;"></div>                     *)
(*   LS              letter-spacing: -0.3px;                               *)
(*   BB13/BB20       border-bottom: 1px solid #000000;                     *)
(*                        padding-bottom: NNpx;                            *)
(*   TAR             text-align: right;                                    *)
(*   MB13/MB20       one space, then margin-bottom: NNpx;">                *)
(*   PB10/PB20       one space, then padding-bottom: NNpx;">               *)
(*   SP, NL          a space, a line break (both match \s)                 *)
(*   X               any text no pattern of the script touches             *)
(***************************************************************************)
EXTENDS Integers, Sequences, FiniteSets, TLC

VARIABLES
    files,             \* the disk: path -> content of the template file
    body_files,        \* line 9: the list glob returned
    idx,               \* position of the for loop of line 13 in body_files
    pc,                \* position of the script
    content,           \* line 17/22..71: the local variable content
    original_content,  \* line 19
    out,               \* the lines printed so far by this invocation
    runs,              \* invocations of the script so far
    disk0,             \* the disk when the current invocation started
    opened_r,          \* paths opened for reading by this invocation
    opened_w,          \* paths opened for writing by this invocation
    checked,           \* paths that reached line 73 in this invocation
    failed,            \* the error that ended this invocation, or "none"
    matched,           \* rules whose pattern matched in the current file
    applied,           \* rules applied so far to the current file's content
    normalized         \* paths whose content, when this invocation started,
                       \* was what an earlier invocation left as its output

vars == <<files, body_files, idx, pc, content, original_content, out, runs,
          disk0, opened_r, opened_w, checked, failed, matched, applied,
          normalized>>

----------------------------------------------------------------------------
(* Bounds *)

MaxLen == 3

MaxRuns == 2

NumFiles == 2

RunLen == 1

----------------------------------------------------------------------------
(* Text *)

Whitespace == {"SP", "NL"}

Tokens == {"TD13", "TD20", "TD24", "CMT", "DIVFF", "DIV13", "DIV20", "LS",
           "BB13", "BB20", "TAR", "MB13", "MB20", "PB10", "PB20",
           "SP", "NL", "X"}

\* The tokens of a template the script has not rewritten yet: the 20px
\* fragments are what its replacements produce.
InputTokens == Tokens \ {"TD20", "DIV20", "BB20", "MB20", "PB20"}

BoundedSeq(S, n) == UNION {[1..m -> S] : m \in 0..n}

\* Number of consecutive whitespace tokens of c from position i on: the
\* text a greedy \s* takes.
RECURSIVE WsRun(_, _)
WsRun(c, i) ==
    IF i <= Len(c) /\ c[i] \in Whitespace THEN 1 + WsRun(c, i + 1) ELSE 0

\* A literal token at position i.
At(c, i, t) == i >= 1 /\ i <= Len(c) /\ c[i] = t

(* Each PatternK(c, i) is the length of the match of rule K's pattern that *)
(* starts at position i of c, 0 when it does not match there.  Each        *)
(* ReplK(m) is the expansion of rule K's replacement for the match m.      *)

\* The pattern with \s+ for \s*.
Pattern1NeedsSpace(c, i) ==
    IF At(c, i, "TD13") /\ WsRun(c, i + 1) >= 1
       /\ At(c, i + 1 + WsRun(c, i + 1), "CMT")
    THEN 2 + WsRun(c, i + 1) ELSE 0

\* <td style="padding-top: 13px;">(\s*<!-- Top border above subject -->)
Pattern1(c, i) ==
    IF At(c, i, "TD13") /\ At(c, i + 1 + WsRun(c, i + 1), "CMT")
    THEN 2 + WsRun(c, i + 1) ELSE 0

\* The replacement with 24px typed for 20px.
Repl1Typo24(m) == <<"TD24">> \o SubSeq(m, 2, Len(m))

Repl1(m) == <<"TD20">> \o SubSeq(m, 2, Len(m))

\* <div style="border-top: 1px solid #000000; margin-bottom: 13px;"></div>
Pattern2(c, i) == IF At(c, i, "DIV13") THEN 1 ELSE 0

\* The replacement a copy of the pattern, 13px left in it.
Repl2Same(m) == <<"DIV13">>

Repl2(m) == <<"DIV20">>

\* (letter-spacing: -0\.3px;)\s+(border-bottom: ...; padding-bottom: 13px;)
Pattern3(c, i) ==
    IF At(c, i, "LS") /\ WsRun(c, i + 1) >= 1
       /\ At(c, i + 1 + WsRun(c, i + 1), "BB13")
    THEN 2 + WsRun(c, i + 1) ELSE 0

\* \1, two spaces, the border-bottom fragment with 20px
Repl3(m) == <<m[1], "SP", "SP", "BB20">>

\* <td style="padding-top: 13px;">(\s*<div style="font-family)
Pattern4(c, i) ==
    IF At(c, i, "TD13") /\ At(c, i + 1 + WsRun(c, i + 1), "DIVFF")
    THEN 2 + WsRun(c, i + 1) ELSE 0

Repl4(m) == <<"TD20">> \o SubSeq(m, 2, Len(m))

\* (text-align: right;) margin-bottom: 13px;">
Pattern5(c, i) ==
    IF At(c, i, "TAR") /\ At(c, i + 1, "MB13") THEN 2 ELSE 0

Repl5(m) == <<m[1], "MB20">>

\* (text-align: right;) padding-bottom: 10px;">
Pattern6(c, i) ==
    IF At(c, i, "TAR") /\ At(c, i + 1, "PB10") THEN 2 ELSE 0

Repl6(m) == <<m[1], "PB20">>

\* <td style="padding-top: 24px;">
Pattern8(c, i) == IF At(c, i, "TD24") THEN 1 ELSE 0

\* The replacement with 13px typed for 20px.
Repl8Typo13(m) == <<"TD13">>

Repl8(m) == <<"TD20">>

\* The numbers the source gives its substitutions (7 is a comment only).
Rules == {1, 2, 3, 4, 5, 6, 8}

MatchLen(k, c, i) ==
    CASE k = 1 -> Pattern1(c, i)
      [] k = 2 -> Pattern2(c, i)
      [] k = 3 -> Pattern3(c, i)
      [] k = 4 -> Pattern4(c, i)
      [] k = 5 -> Pattern5(c, i)
      [] k = 6 -> Pattern6(c, i)
      [] k = 8 -> Pattern8(c, i)

Expand(k, m) ==
    CASE k = 1 -> Repl1(m)
      [] k = 2 -> Repl2(m)
      [] k = 3 -> Repl3(m)
      [] k = 4 -> Repl4(m)
      [] k = 5 -> Repl5(m)
      [] k = 6 -> Repl6(m)
      [] k = 8 -> Repl8(m)

\* re.search: the pattern of rule k matches somewhere in c.
HasMatch(k, c) == \E i \in 1..Len(c) : MatchLen(k, c, i) > 0

\* re.sub: scan c from position i, replace the leftmost match, go on
\* behind it; matches do not overlap.
RECURSIVE ReSub(_, _, _)
ReSub(k, c, i) ==
    IF i > Len(c) THEN <<>>
    ELSE LET n == MatchLen(k, c, i) IN
         IF n > 0
         THEN Expand(k, SubSeq(c, i, i + n - 1)) \o ReSub(k, c, i + n)
         ELSE <<c[i]>> \o ReSub(k, c, i + 1)

Rule(k, c) == ReSub(k, c, 1)

\* Lines 22-71: the seven substitutions in the listed order.
Normalize(c) ==
    Rule(8, Rule(6, Rule(5, Rule(4, Rule(3, Rule(2, Rule(1, c)))))))

----------------------------------------------------------------------------
(* The script *)

\* The orders in which glob may list the files of the directory.
Listings(S) ==
    {l \in [1..Cardinality(S) -> S] : \A a, b \in DOMAIN l : l[a] = l[b] => a = b}

file_path == body_files[idx]

Prefixes(c) == {SubSeq(c, 1, n) : n \in 0..Len(c)}

\* Lines 9-11: an invocation lists the templates and prints the count.
Invoke ==
    /\ runs' = runs + 1
    /\ body_files' \in Listings(DOMAIN files)
    /\ idx' = 1
    /\ out' = << <<"Found", Cardinality(DOMAIN files)>> >>
    /\ pc' = "loop"
    /\ disk0' = files
    /\ opened_r' = {}
    /\ opened_w' = {}
    /\ checked' = {}
    /\ failed' = "none"
    /\ matched' = {}
    /\ applied' = {}
    /\ content' = <<>>
    /\ original_content' = <<>>
    /\ normalized' = IF failed = "write"
                     THEN (normalized \cup checked) \ {file_path}
                     ELSE normalized \cup checked
    /\ UNCHANGED files

\* The first invocation of the script.
Start ==
    /\ pc = "idle"
    /\ Invoke

\* The script ended, or died of an error, and is invoked again.
Rerun ==
    /\ pc \in {"done", "aborted"}
    /\ runs < MaxRuns
    /\ Invoke

\* Lines 13-19: the next file is announced, opened, read and decoded.
ReadFile ==
    /\ pc = "loop"
    /\ idx <= Len(body_files)
    /\ out' = Append(out, <<"Processing", file_path>>)
    /\ opened_r' = opened_r \cup {file_path}
    /\ content' = files[file_path]
    /\ original_content' = files[file_path]
    /\ matched' = {}
    /\ applied' = {}
    /\ pc' = "sub1"
    /\ UNCHANGED <<files, body_files, idx, runs, disk0, opened_w, checked,
                   failed, normalized>>

\* The read wrapped in try/except with continue: the loop goes on.
ReadErrorSkip ==
    /\ pc = "loop"
    /\ idx <= Len(body_files)
    /\ out' = Append(out, <<"Processing", file_path>>)
    /\ opened_r' = opened_r \cup {file_path}
    /\ failed' = "read"
    /\ idx' = idx + 1
    /\ UNCHANGED <<files, body_files, pc, content, original_content, runs,
                   disk0, opened_w, checked, matched, applied, normalized>>

\* Lines 16-17 raise (the file cannot be opened or is not UTF-8): nothing
\* catches the exception and the interpreter exits.
ReadError ==
    /\ pc = "loop"
    /\ idx <= Len(body_files)
    /\ out' = Append(out, <<"Processing", file_path>>)
    /\ opened_r' = opened_r \cup {file_path}
    /\ failed' = "read"
    /\ pc' = "aborted"
    /\ UNCHANGED <<files, body_files, idx, content, original_content, runs,
                   disk0, opened_w, checked, matched, applied, normalized>>

\* One content = re.sub(...) statement.
Sub(k, here, next) ==
    /\ pc = here
    /\ content' = Rule(k, content)
    /\ matched' = IF HasMatch(k, content) THEN matched \cup {k} ELSE matched
    /\ applied' = applied \cup {k}
    /\ pc' = next
    /\ UNCHANGED <<files, body_files, idx, original_content, out, runs, disk0,
                   opened_r, opened_w, checked, failed, normalized>>

Sub1 == Sub(1, "sub1", "sub2")

Sub2 == Sub(2, "sub2", "sub3")

Sub3 == Sub(3, "sub3", "sub4")

Sub4 == Sub(4, "sub4", "sub5")

Sub5 == Sub(5, "sub5", "sub6")

Sub6 == Sub(6, "sub6", "sub8")

Sub8 == Sub(8, "sub8", "check")

\* "if content:" for the comparison with original_content.
ChangedTruthy == content /= <<>>

\* Line 73.
Changed == content /= original_content

\* f.write(original_content) for f.write(content).
WriteBackOriginal ==
    /\ pc = "check"
    /\ Changed
    /\ files' = [files EXCEPT ![file_path] = original_content]
    /\ opened_w' = opened_w \cup {file_path}
    /\ checked' = checked \cup {file_path}
    /\ out' = Append(out, <<"Updated", file_path>>)
    /\ idx' = idx + 1
    /\ pc' = "loop"
    /\ UNCHANGED <<body_files, content, original_content, runs, disk0,
                   opened_r, failed, matched, applied, normalized>>

\* Lines 73-76: the content changed and the file is rewritten in place.
WriteBack ==
    /\ pc = "check"
    /\ Changed
    /\ files' = [files EXCEPT ![file_path] = content]
    /\ opened_w' = opened_w \cup {file_path}
    /\ checked' = checked \cup {file_path}
    /\ out' = Append(out, <<"Updated", file_path>>)
    /\ idx' = idx + 1
    /\ pc' = "loop"
    /\ UNCHANGED <<body_files, content, original_content, runs, disk0,
                   opened_r, failed, matched, applied, normalized>>

\* Lines 74-75 raise: open fails and the file keeps its content, or the
\* file was truncated by open and holds what was written before the error.
WriteError ==
    /\ pc = "check"
    /\ Changed
    /\ \E stored \in {files[file_path]} \cup Prefixes(content) :
          files' = [files EXCEPT ![file_path] = stored]
    /\ opened_w' = opened_w \cup {file_path}
    /\ checked' = checked \cup {file_path}
    /\ failed' = "write"
    /\ pc' = "aborted"
    /\ UNCHANGED <<body_files, idx, content, original_content, out, runs,
                   disk0, opened_r, matched, applied, normalized>>

\* Lines 73, 77-78: nothing changed and the file is left alone.
NoChange ==
    /\ pc = "check"
    /\ ~Changed
    /\ checked' = checked \cup {file_path}
    /\ out' = Append(out, <<"NoChanges", file_path>>)
    /\ idx' = idx + 1
    /\ pc' = "loop"
    /\ UNCHANGED <<files, body_files, content, original_content, runs, disk0,
                   opened_r, opened_w, failed, matched, applied, normalized>>

\* Line 80: the loop is over.
Finish ==
    /\ pc = "loop"
    /\ idx > Len(body_files)
    /\ out' = Append(out, <<"AllProcessed", 0>>)
    /\ pc' = "done"
    /\ UNCHANGED <<files, body_files, idx, content, original_content, runs,
                   disk0, opened_r, opened_w, checked, failed, matched,
                   applied, normalized>>

Idle(disk) ==
    /\ files = disk
    /\ body_files = <<>>
    /\ idx = 1
    /\ pc = "idle"
    /\ content = <<>>
    /\ original_content = <<>>
    /\ out = <<>>
    /\ runs = 0
    /\ disk0 = disk
    /\ opened_r = {}
    /\ opened_w = {}
    /\ checked = {}
    /\ failed = "none"
    /\ matched = {}
    /\ applied = {}
    /\ normalized = {}

\* What the short templates of a whole directory are made of: the
\* fragments rules 8 and 2 rewrite, and other text.
RunTokens == {"TD24", "DIV13", "X"}

\* A directory of NumFiles templates of up to RunLen tokens.
Init == \E disk \in [1..NumFiles -> BoundedSeq(RunTokens, RunLen)] : Idle(disk)

Next ==
    \/ Start
    \/ ReadFile
    \/ ReadError
    \/ Sub1
    \/ Sub2
    \/ Sub3
    \/ Sub4
    \/ Sub5
    \/ Sub6
    \/ Sub8
    \/ WriteBack
    \/ WriteError
    \/ NoChange
    \/ Finish

Spec == Init /\ [][Next]_vars

\* A directory of one template with any content up to MaxLen tokens.
InitFile == \E c \in BoundedSeq(InputTokens, MaxLen) : Idle([p \in {1} |-> c])

NextFile ==
    \/ Start
    \/ Rerun
    \/ ReadFile
    \/ Sub1
    \/ Sub2
    \/ Sub3
    \/ Sub4
    \/ Sub5
    \/ Sub6
    \/ Sub8
    \/ WriteBack
    \/ NoChange
    \/ Finish

SpecFile == InitFile /\ [][NextFile]_vars

\* The substitutions of one file taken in any order.  The file read is one
\* in which some pattern has a match: in any other, no substitution in any
\* order has anything to replace.
SubAny(k) ==
    /\ pc = "permute"
    /\ k \notin applied
    /\ content' = Rule(k, content)
    /\ applied' = applied \cup {k}
    /\ UNCHANGED <<files, body_files, idx, pc, original_content, out, runs,
                   disk0, opened_r, opened_w, checked, failed, matched,
                   normalized>>

InitOrder ==
    \E c \in BoundedSeq(InputTokens, MaxLen) :
        /\ \E k \in Rules : HasMatch(k, c)
        /\ files = [p \in {1} |-> c]
        /\ body_files = <<1>>
        /\ idx = 1
        /\ pc = "permute"
        /\ content = c
        /\ original_content = c
        /\ out = <<>>
        /\ runs = 1
        /\ disk0 = files
        /\ opened_r = {1}
        /\ opened_w = {}
        /\ checked = {}
        /\ failed = "none"
        /\ matched = {}
        /\ applied = {}
        /\ normalized = {}

NextOrder == \E k \in Rules : SubAny(k)

SpecOrder == InitOrder /\ [][NextOrder]_vars

----------------------------------------------------------------------------
(* Properties *)

\* The line was printed by the current invocation.
Printed(kind, arg) == \E n \in DOMAIN out : out[n] = <<kind, arg>>

\* The file the loop dealt with last, once it has gone past it.
Past == pc \in {"loop", "done"} /\ idx > 1

last_path == body_files[idx - 1]

\* A token without its spacing value.
Shape(t) ==
    CASE t \in {"TD13", "TD20", "TD24"} -> "TD"
      [] t \in {"DIV13", "DIV20"} -> "DIV"
      [] t \in {"BB13", "BB20"} -> "BB"
      [] t \in {"MB13", "MB20"} -> "MB"
      [] t \in {"PB10", "PB20"} -> "PB"
      [] OTHER -> t

\* Position i of c holds the 13px td tag and only whitespace, if anything,
\* lies between it and the comment at position j.
CommentNext(c, i, j) ==
    /\ c[i] = "TD13"
    /\ j > i
    /\ c[j] = "CMT"
    /\ \A m \in (i + 1)..(j - 1) : c[m] \in Whitespace

\* Position i of c holds the 13px td tag and the comment comes at position j
\* behind it, whatever lies between them.
CommentLater(c, i, j) ==
    /\ c[i] = "TD13"
    /\ j > i
    /\ c[j] = "CMT"

\* C1: normalize is idempotent.  A file whose content is what an earlier
\* invocation of the script left as its output comes out of the seven
\* substitutions unchanged: the comparison of line 73 finds no change, the
\* file is not opened for writing and is not reported as updated.
C1_Idempotent ==
    \A p \in normalized :
        /\ p \notin opened_w
        /\ ~Printed("Updated", p)
        /\ (pc = "check" /\ file_path = p) => content = original_content
        /\ Normalize(disk0[p]) = disk0[p]

\* C1 witness: the second invocation reaches line 73 on a file the first
\* invocation rewrote (it holds a 20px fragment no input holds).
C1_Witness ==
    /\ runs = 2
    /\ pc = "check"
    /\ file_path \in normalized
    /\ \E n \in DOMAIN content : content[n] \notin InputTokens

\* C2: a template is opened for writing if and only if it reached line 73
\* with content that differs from what was read; a file written without
\* error holds exactly the transformed content at its own path, and a file
\* that was not opened for writing holds what it held before.
C2_WriteIffChanged ==
    \A p \in DOMAIN files :
        /\ p \in opened_w <=> (p \in checked /\ Normalize(disk0[p]) /= disk0[p])
        /\ (p \in opened_w /\ ~(failed = "write" /\ p = file_path))
               => files[p] = Normalize(disk0[p])
        /\ p \notin opened_w => files[p] = disk0[p]

\* C2 witness: one invocation ended having rewritten one file and left
\* another alone.
C2_Witness ==
    /\ pc = "done"
    /\ opened_w /= {}
    /\ opened_w /= DOMAIN files
    /\ \A p \in opened_w : files[p] /= disk0[p]

\* C3: when the pattern of some rule matched at the moment the rule was
\* applied, the content at line 73 differs from the content read, and the
\* file is overwritten.
C3_MatchChanges ==
    /\ (pc = "check" /\ matched /= {}) => content /= original_content
    /\ (Past /\ matched /= {}) =>
           /\ last_path \in opened_w
           /\ files[last_path] /= disk0[last_path]

\* C3 witness: a file in which a pattern matched has been rewritten.
C3_Witness ==
    /\ Past
    /\ matched /= {}
    /\ runs = 1
    /\ Printed("Updated", last_path)

\* C4 as claimed: content in which none of the patterns of the rules
\* numbered 1 to 6 matches reaches line 73 unchanged.
C4_SixPatterns ==
    (pc = "check" /\ \A k \in 1..6 : ~HasMatch(k, original_content))
        => content = original_content

\* C4 as amended: content in which none of the seven patterns (the rules
\* numbered 1 to 6 and 8) matches reaches line 73 identical to what was
\* read, and the file is neither opened for writing nor changed.
C4_SevenPatterns ==
    /\ (pc = "check" /\ \A k \in Rules : ~HasMatch(k, original_content))
           => content = original_content
    /\ (Past /\ \A k \in Rules : ~HasMatch(k, disk0[last_path])) =>
           /\ last_path \notin opened_w
           /\ files[last_path] = disk0[last_path]
           /\ Printed("NoChanges", last_path)

\* C4 witness: a file of three tokens that are not whitespace, none of the
\* seven patterns in it, was left alone.
C4_Witness ==
    /\ Past
    /\ runs = 1
    /\ Len(disk0[last_path]) = 3
    /\ \A n \in 1..3 : disk0[last_path][n] \notin Whitespace \cup {"X"}
    /\ \A k \in Rules : ~HasMatch(k, disk0[last_path])
    /\ Printed("NoChanges", last_path)

\* C5 as claimed: the content at line 73 differs from the content read only
\* in spacing values, each changed one now 20px; every other character,
\* whitespace included, is where it was.
C5_OnlyValues ==
    pc = "check" =>
        /\ Len(content) = Len(original_content)
        /\ \A n \in DOMAIN content :
              /\ Shape(content[n]) = Shape(original_content[n])
              /\ content[n] /= original_content[n] =>
                     content[n] \in {"TD20", "DIV20", "BB20", "MB20", "PB20"}

\* C6 as claimed: after rule 1, every 13px td tag followed by the comment,
\* whatever lies between the two, holds 20px, with what lies between and
\* the comment unchanged behind it; a tag with no comment behind it is as
\* it was.
C6_FollowedByComment ==
    pc = "sub2" =>
        /\ Len(content) = Len(original_content)
        /\ \A i \in DOMAIN original_content :
              original_content[i] = "TD13" =>
                  IF \E j \in DOMAIN original_content :
                         CommentLater(original_content, i, j)
                  THEN /\ content[i] = "TD20"
                       /\ \A j \in DOMAIN original_content :
                              CommentLater(original_content, i, j) =>
                                  \A m \in (i + 1)..j :
                                      content[m] = original_content[m]
                  ELSE content[i] = "TD13"

\* C6 as amended: rule 1 rewrites to 20px every 13px td tag that has the
\* comment behind it with nothing but whitespace (possibly none) between
\* the two, and changes nothing else: the whitespace and the comment stay
\* as they were, and every other 13px td tag is left to the later rules.
\* The rewritten tag, the whitespace and the comment are still there at
\* line 73 (stated for content without a match of rule 3, the one rule
\* that moves what comes behind its match).
C6_Rule1 ==
    /\ pc = "sub2" =>
          /\ Len(content) = Len(original_content)
          /\ \A i \in DOMAIN original_content :
                content[i] =
                    IF \E j \in DOMAIN original_content :
                           CommentNext(original_content, i, j)
                    THEN "TD20"
                    ELSE original_content[i]
    /\ (pc = "check" /\ ~HasMatch(3, original_content)) =>
          \A i, j \in DOMAIN original_content :
              CommentNext(original_content, i, j) =>
                  /\ content[i] = "TD20"
                  /\ \A m \in (i + 1)..j : content[m] = original_content[m]

\* C6 witness: rule 1 has rewritten a tag that has whitespace and then the
\* comment behind it.
C6_Witness ==
    /\ pc = "sub2"
    /\ \E i, j \in DOMAIN original_content :
          /\ CommentNext(original_content, i, j)
          /\ j = i + 2
          /\ content[i] = "TD20"
          /\ content[j] = "CMT"

\* C7: an error on a template ends the invocation: the script is dead, no
\* file behind the failing one in the list was opened or changed, the
\* closing line was not printed, the files rewritten before keep their new
\* content, and a file that failed on reading holds what it held.
C7_ErrorAborts ==
    failed /= "none" =>
        /\ pc = "aborted"
        /\ idx \in DOMAIN body_files
        /\ \A j \in (idx + 1)..Len(body_files) :
              /\ body_files[j] \notin opened_r \cup opened_w
              /\ files[body_files[j]] = disk0[body_files[j]]
        /\ ~Printed("AllProcessed", 0)
        /\ \A j \in 1..(idx - 1) :
              body_files[j] \in opened_w =>
                  /\ files[body_files[j]] = Normalize(disk0[body_files[j]])
                  /\ files[body_files[j]] /= disk0[body_files[j]]
        /\ failed = "read" =>
              /\ files[file_path] = disk0[file_path]
              /\ file_path \notin opened_w

\* C7 witness: the first file of the list was rewritten and the second one
\* failed.
C7_Witness ==
    /\ failed /= "none"
    /\ idx = 2
    /\ body_files[1] \in opened_w
    /\ files[body_files[1]] /= disk0[body_files[1]]

\* C10: taken in any order, the seven substitutions give what the listed
\* order gives.
C10_AnyOrder ==
    (pc = "permute" /\ applied = Rules) => content = Normalize(original_content)

\* C10 witness: all seven rules were applied, in some order, to content in
\* which two of them had a match.
C10_Witness ==
    /\ pc = "permute"
    /\ applied = Rules
    /\ HasMatch(1, original_content)
    /\ HasMatch(8, original_content)
    /\ content /= original_content

====
